---- MODULE Spec2Model ----
(***************************************************************************)
(* Model of the books REST service: the SQLx data-access layer (db.rs),    *)
(* the Axum handlers that wrap it (rest.rs) and the shared connection pool *)
(* handed to every handler (main.rs).                                      *)
(*                                                                         *)
(* Strings are sequences of byte values (32 is the space, 65 "A", 66 "B"), *)
(* so that ORDER BY compares them the way the store's BINARY collation     *)
(* does.  A book is a record [id, title, author]; the table is a set of    *)
(* books, so that two rows with one id are representable.                  *)
(***************************************************************************)
EXTENDS Integers, Sequences, FiniteSets, TLC

VARIABLES
    store,      \* the rows of the books table
    seq,        \* the largest id the table has ever assigned
    size,       \* the number of connections the pool owns
    free,       \* the connections now idle in the pool
    pc,         \* per request slot: "idle", "acquire", "exec" or "done"
    req,        \* per request slot: the decoded request
    held,       \* per request slot: whether it holds a pool connection
    checkouts,  \* per request slot: connections checked out by this request
    stmts,      \* per request slot: statements this request has executed
    calls,      \* per request slot: calls of a db:: function by this request
    res,        \* per request slot: the Result of the db:: call
    affected,   \* per request slot: rows its statement matched (dropped by db.rs)
    resp        \* per request slot: the HTTP response

vars == <<store, seq, size, free, pc, req, held, checkouts, stmts, calls, res, affected, resp>>

\* ------------------------------------------------------------------ bounds

\* Ids the table may assign before create requests stop being issued.
MaxId == 2

\* Concurrent request slots of the pool specification.
NumClients == 2

\* Largest pool size the pool specification starts from.
MaxPool == 1

\* ------------------------------------------------------------------ data

Titles == {<<32>>, <<65>>, <<65, 66>>}
Authors == {<<65>>, <<66>>}

PoolTitles == {<<65>>, <<66>>}
PoolAuthors == {<<65>>}

Book(i, t, a) == [id |-> i, title |-> t, author |-> a]

IdsOf(s) == {b.id : b \in s}

\* Every table over the given ids in which each id names one row.
Tables(ids, ts, as) ==
    UNION {{{Book(i, f[i][1], f[i][2]) : i \in D} : f \in [D -> ts \X as]} : D \in SUBSET ids}

\* ------------------------------------------------------------------ results

Ok(v) == [ok |-> TRUE, err |-> "", val |-> v]
Err(e) == [ok |-> FALSE, err |-> e, val |-> <<>>]

NoResult == [ok |-> FALSE, err |-> "none", val |-> <<>>]
NoResponse == [status |-> 0, body |-> <<>>]

\* ------------------------------------------------------------------ db.rs

\* Byte-wise comparison of two strings, a proper prefix first.
RECURSIVE StrLess(_, _)
StrLess(s, t) ==
    IF t = <<>> THEN FALSE
    ELSE IF s = <<>> THEN TRUE
    ELSE IF Head(s) # Head(t) THEN Head(s) < Head(t)
    ELSE StrLess(Tail(s), Tail(t))

\* ORDER BY title only: the author column is dropped from the ordering.
OrderByTitle(a, b) ==
    \/ StrLess(a.title, b.title)
    \/ a.title = b.title

\* ORDER BY title,author: a may stand before b.
OrderByTitleAuthor(a, b) ==
    \/ StrLess(a.title, b.title)
    \/ /\ a.title = b.title
       /\ \/ StrLess(a.author, b.author)
          \/ a.author = b.author

\* The orders in which SELECT * ... ORDER BY title,author may yield the rows
\* of s: rows equal in both columns come in an order the store chooses.
SelectOrdered(s) ==
    {l \in [1..Cardinality(s) -> s] :
        /\ \A i, j \in 1..Cardinality(s) : i # j => l[i] # l[j]
        /\ \A i, j \in 1..Cardinality(s) : i < j => OrderByTitleAuthor(l[i], l[j])}

all_books(s) == {Ok(l) : l \in SelectOrdered(s)}

\* SELECT * FROM books WHERE id=$1, fetch_one: the row, or RowNotFound.
book_by_id(s, id) ==
    IF \E b \in s : b.id = id
    THEN {Ok(<<b>>) : b \in {x \in s : x.id = id}}
    ELSE {Err("RowNotFound")}

\* The id the table gives the next inserted row.
NextId(s, q) ==
    LET m == IF \E b \in s : b.id > q THEN CHOOSE i \in IdsOf(s) : \A j \in IdsOf(s) : j <= i
             ELSE q
    IN  m + 1

\* INSERT that names the id itself instead of leaving it to the table.
InsertFirstId(s, id, title, author) == s \cup {Book(1, title, author)}

\* INSERT with the two bound values in the wrong columns.
InsertSwapped(s, id, title, author) == s \cup {Book(id, author, title)}

\* INSERT INTO books (title, author) VALUES ($1, $2)
InsertRow(s, id, title, author) == s \cup {Book(id, title, author)}

add_book(s, q, title, author) ==
    [store |-> InsertRow(s, NextId(s, q), title, author),
     seq |-> NextId(s, q),
     res |-> Ok(<<NextId(s, q)>>)]

\* UPDATE that inserts the row when no row has the id.
UpdateOrInsert(s, book) ==
    IF \E b \in s : b.id = book.id
    THEN {IF b.id = book.id THEN Book(b.id, book.title, book.author) ELSE b : b \in s}
    ELSE s \cup {book}

\* UPDATE without its WHERE clause: every row takes the new title and author.
UpdateEveryRow(s, book) ==
    {Book(b.id, book.title, book.author) : b \in s}

\* UPDATE books SET title=$1, author=$2 WHERE id=$3
UpdateRows(s, book) ==
    {IF b.id = book.id THEN Book(b.id, book.title, book.author) ELSE b : b \in s}

update_book(s, book) == [store |-> UpdateRows(s, book), res |-> Ok(<<>>)]

\* DELETE without its WHERE clause.
DeleteEveryRow(s, id) == {}

\* DELETE FROM books WHERE id=$1
DeleteRows(s, id) == {b \in s : b.id # id}

delete_book(s, id) == [store |-> DeleteRows(s, id), res |-> Ok(<<>>)]

\* ------------------------------------------------------------------ rest.rs

\* A handler that answers 200 whatever the db:: call returned.
StatusAlwaysOk(r) == 200

\* The status every handler answers with: 200 on Ok, SERVICE_UNAVAILABLE on
\* any Err.
StatusOf(r) == IF r.ok THEN 200 ELSE 503

Response(r) == [status |-> StatusOf(r), body |-> IF r.ok THEN r.val ELSE <<>>]

\* The decoded requests of the five routes.
Request(o, i, t, a) == [op |-> o, id |-> i, title |-> t, author |-> a]

Requests(ids, bodyIds, ts, as) ==
    {Request("list", 0, <<>>, <<>>)}
    \cup {Request("get", i, <<>>, <<>>) : i \in ids}
    \cup {Request("add", i, t, a) : i \in bodyIds, t \in ts, a \in as}
    \cup {Request("update", i, t, a) : i \in ids, t \in ts, a \in as}
    \cup {Request("delete", i, <<>>, <<>>) : i \in ids}

\* The requests the concurrent clients send: each route once, all aimed at id 1.
PoolRequests ==
    {Request("list", 0, <<>>, <<>>), Request("get", 1, <<>>, <<>>),
     Request("add", 1, <<65>>, <<65>>), Request("update", 1, <<66>>, <<65>>),
     Request("delete", 1, <<>>, <<>>)}

NoRequest == Request("none", 0, <<>>, <<>>)

Slots == DOMAIN pc

\* Create requests accepted and not yet executed.
PendingAdds == Cardinality({c \in Slots : pc[c] \in {"acquire", "exec"} /\ req[c].op = "add"})

\* Rows the statement of request r matches in table s.
Matched(s, r) ==
    CASE r.op = "list" -> Cardinality(s)
      [] r.op = "add" -> 1
      [] OTHER -> Cardinality({b \in s : b.id = r.id})

\* ------------------------------------------------------------------ pool

\* A connection dropped without being handed back.
ConnectionLeaked(f) == f

\* A connection handed back to the pool.
ConnectionReturned(f) == f + 1

\* ------------------------------------------------------------------ actions

\* The router hands a decoded request to its handler, which calls its db::
\* function.
Receive(c, r) ==
    /\ pc[c] \in {"idle", "done"}
    /\ r.op = "add" => seq + PendingAdds < MaxId
    /\ pc' = [pc EXCEPT ![c] = "acquire"]
    /\ req' = [req EXCEPT ![c] = r]
    /\ checkouts' = [checkouts EXCEPT ![c] = 0]
    /\ stmts' = [stmts EXCEPT ![c] = 0]
    /\ calls' = [calls EXCEPT ![c] = 1]
    /\ res' = [res EXCEPT ![c] = NoResult]
    /\ affected' = [affected EXCEPT ![c] = 0]
    /\ resp' = [resp EXCEPT ![c] = NoResponse]
    /\ UNCHANGED <<store, seq, size, free, held>>

\* The query checks a connection out of the pool; it waits while none is idle.
Acquire(c) ==
    /\ pc[c] = "acquire"
    /\ free > 0
    /\ free' = free - 1
    /\ held' = [held EXCEPT ![c] = TRUE]
    /\ checkouts' = [checkouts EXCEPT ![c] = @ + 1]
    /\ pc' = [pc EXCEPT ![c] = "exec"]
    /\ UNCHANGED <<store, seq, size, req, stmts, calls, res, affected, resp>>

\* The store cannot be reached: the query fails before any statement runs.
AcquireFail(c) ==
    /\ pc[c] = "acquire"
    /\ res' = [res EXCEPT ![c] = Err("PoolTimedOut")]
    /\ resp' = [resp EXCEPT ![c] = Response(Err("PoolTimedOut"))]
    /\ pc' = [pc EXCEPT ![c] = "done"]
    /\ UNCHANGED <<store, seq, size, free, req, held, checkouts, stmts, calls, affected>>

\* The statement has run with outcome r: the connection goes back to the pool
\* and the handler maps the outcome to its response.
Finish(c, r) ==
    /\ res' = [res EXCEPT ![c] = r]
    /\ affected' = [affected EXCEPT ![c] = IF r.ok THEN Matched(store, req[c]) ELSE 0]
    /\ resp' = [resp EXCEPT ![c] = Response(r)]
    /\ stmts' = [stmts EXCEPT ![c] = @ + 1]
    /\ free' = ConnectionReturned(free)
    /\ held' = [held EXCEPT ![c] = FALSE]
    /\ pc' = [pc EXCEPT ![c] = "done"]
    /\ UNCHANGED <<size, req, checkouts, calls>>

get_all_books(c) ==
    /\ pc[c] = "exec"
    /\ req[c].op = "list"
    /\ \E r \in all_books(store) \cup {Err("Io")} : Finish(c, r)
    /\ UNCHANGED <<store, seq>>

get_book(c) ==
    /\ pc[c] = "exec"
    /\ req[c].op = "get"
    /\ \E r \in book_by_id(store, req[c].id) \cup {Err("Io")} : Finish(c, r)
    /\ UNCHANGED <<store, seq>>

rest_add_book(c) ==
    /\ pc[c] = "exec"
    /\ req[c].op = "add"
    /\ \E fault \in BOOLEAN :
        IF fault
        THEN Finish(c, Err("Io")) /\ UNCHANGED <<store, seq>>
        ELSE LET out == add_book(store, seq, req[c].title, req[c].author)
             IN  Finish(c, out.res) /\ store' = out.store /\ seq' = out.seq

rest_update_book(c) ==
    /\ pc[c] = "exec"
    /\ req[c].op = "update"
    /\ \E fault \in BOOLEAN :
        IF fault
        THEN Finish(c, Err("Io")) /\ UNCHANGED <<store, seq>>
        ELSE LET out == update_book(store, Book(req[c].id, req[c].title, req[c].author))
             IN  Finish(c, out.res) /\ store' = out.store /\ UNCHANGED seq

rest_delete_book(c) ==
    /\ pc[c] = "exec"
    /\ req[c].op = "delete"
    /\ \E fault \in BOOLEAN :
        IF fault
        THEN Finish(c, Err("Io")) /\ UNCHANGED <<store, seq>>
        ELSE LET out == delete_book(store, req[c].id)
             IN  Finish(c, out.res) /\ store' = out.store /\ UNCHANGED seq

Execute(c) ==
    get_all_books(c) \/ get_book(c) \/ rest_add_book(c) \/ rest_update_book(c) \/ rest_delete_book(c)

\* ------------------------------------------------------------------ specifications

InitSlots(n) ==
    /\ pc = [c \in 1..n |-> "idle"]
    /\ req = [c \in 1..n |-> NoRequest]
    /\ held = [c \in 1..n |-> FALSE]
    /\ checkouts = [c \in 1..n |-> 0]
    /\ stmts = [c \in 1..n |-> 0]
    /\ calls = [c \in 1..n |-> 0]
    /\ res = [c \in 1..n |-> NoResult]
    /\ affected = [c \in 1..n |-> 0]
    /\ resp = [c \in 1..n |-> NoResponse]

\* One request at a time against any table the store can hold.
Init ==
    /\ seq \in 0..MaxId
    /\ store \in Tables(1..seq, Titles, Authors)
    /\ size = 1
    /\ free = size
    /\ InitSlots(1)

Next ==
    \E c \in 1..1 :
        \/ \E r \in Requests(1..MaxId, {-1, 1}, Titles, Authors) : Receive(c, r)
        \/ Acquire(c)
        \/ AcquireFail(c)
        \/ get_all_books(c)
        \/ get_book(c)
        \/ rest_add_book(c)
        \/ rest_update_book(c)
        \/ rest_delete_book(c)

Spec == Init /\ [][Next]_vars

\* Concurrent requests sharing a pool of any size up to MaxPool.
PoolInit ==
    /\ seq \in 0..1
    /\ store \in Tables(1..seq, PoolTitles, PoolAuthors)
    /\ size \in 1..MaxPool
    /\ free = size
    /\ InitSlots(NumClients)

PoolNext ==
    \E c \in 1..NumClients :
        \/ \E r \in PoolRequests : Receive(c, r)
        \/ Acquire(c)
        \/ AcquireFail(c)
        \/ get_all_books(c)
        \/ get_book(c)
        \/ rest_add_book(c)
        \/ rest_update_book(c)
        \/ rest_delete_book(c)

PoolSpec == PoolInit /\ [][PoolNext]_vars

\* Concurrent requests, each route aimed at the one book the table can still
\* create, sharing a pool of any size up to MaxPool.  The store stays
\* reachable, so a request that waits for a connection is not let off by a
\* failed checkout: it waits until a connection comes back.
LiveRequests ==
    {Request("list", 0, <<>>, <<>>), Request("get", MaxId, <<>>, <<>>),
     Request("add", -1, <<65>>, <<65>>), Request("update", MaxId, <<66>>, <<65>>),
     Request("delete", MaxId, <<>>, <<>>)}

LiveInit ==
    /\ seq = MaxId - 1
    /\ store = {}
    /\ size \in 1..MaxPool
    /\ free = size
    /\ InitSlots(NumClients)

LiveNext ==
    \E c \in 1..NumClients :
        \/ \E r \in LiveRequests : Receive(c, r)
        \/ Acquire(c)
        \/ get_all_books(c)
        \/ get_book(c)
        \/ rest_add_book(c)
        \/ rest_update_book(c)
        \/ rest_delete_book(c)

\* The pool wakes its waiters in turn, so a request that can again and again
\* take a connection does take one; a statement that has started finishes.
LiveSpec ==
    /\ LiveInit
    /\ [][LiveNext]_vars
    /\ \A c \in 1..NumClients : SF_vars(Acquire(c)) /\ WF_vars(Execute(c))

\* ------------------------------------------------------------------ properties

\* Slot c runs its statement in this step.
Executes(c) == pc[c] = "exec" /\ pc'[c] = "done"

\* Slot c runs the statement of route o in this step and the store answers.
Runs(c, o) == Executes(c) /\ req[c].op = o /\ res'[c].ok

\* C1: a listAll on which the store answers is answered 200 with exactly the
\* books of the store, each once, by title ascending and, among equal titles,
\* by author ascending; the empty store gives the empty sequence.
C1_ListAllSorted ==
    [][\A c \in Slots :
        (Executes(c) /\ req[c].op = "list" /\ res'[c].err # "Io") =>
            LET l == resp'[c].body
            IN  /\ resp'[c].status = 200
                /\ Len(l) = Cardinality(store)
                /\ {l[i] : i \in 1..Len(l)} = store
                /\ \A i, j \in 1..Len(l) : i < j =>
                    /\ ~StrLess(l[j].title, l[i].title)
                    /\ l[i].title = l[j].title => ~StrLess(l[j].author, l[i].author)]_vars

\* A listing in which two books share a title and the later-created one comes first.
C1_Witness ==
    \E c \in Slots :
        /\ pc[c] = "done" /\ req[c].op = "list" /\ resp[c].status = 200
        /\ Len(resp[c].body) >= 2
        /\ resp[c].body[1].title = resp[c].body[2].title
        /\ resp[c].body[1].author # resp[c].body[2].author
        /\ resp[c].body[1].id > resp[c].body[2].id

\* C2: a create on which the store answers is answered 200 with a positive id
\* N and leaves getById(N) returning {N, t, a}; a getById of an id in the store
\* is answered 200 with that id's book; and a book stays as it is in every
\* step that is not an update or delete of its id.
C2_CreateThenGet ==
    [][\A c \in Slots :
        /\ Runs(c, "add") =>
            /\ resp'[c].status = 200
            /\ Len(resp'[c].body) = 1
            /\ resp'[c].body[1] > 0
            /\ book_by_id(store', resp'[c].body[1])
                   = {Ok(<<Book(resp'[c].body[1], req[c].title, req[c].author)>>)}
        /\ (Executes(c) /\ req[c].op = "get" /\ res'[c].err # "Io"
                /\ req[c].id \in IdsOf(store)) =>
            /\ resp'[c].status = 200
            /\ Len(resp'[c].body) = 1
            /\ resp'[c].body[1] \in store
            /\ resp'[c].body[1].id = req[c].id
        /\ \A b \in store :
            (~\E d \in Slots :
                Executes(d) /\ req[d].op \in {"update", "delete"} /\ req[d].id = b.id)
                => b \in store']_vars

\* A create answered 200 with an id under which the store holds the book sent.
C2_Witness ==
    \E c \in Slots :
        /\ pc[c] = "done" /\ req[c].op = "add" /\ resp[c].status = 200
        /\ req[c].title # req[c].author
        /\ Book(resp[c].body[1], req[c].title, req[c].author) \in store

\* C3: an update of an id in the store gives that row the title and author
\* sent, keeps its id and leaves every other row, and the number of rows, as
\* they were.
C3_UpdateFrame ==
    [][\A c \in Slots :
        (Runs(c, "update") /\ req[c].id \in IdsOf(store)) =>
            /\ Book(req[c].id, req[c].title, req[c].author) \in store'
            /\ \A b \in store' : b.id = req[c].id =>
                   b = Book(req[c].id, req[c].title, req[c].author)
            /\ \A b \in store : b.id # req[c].id => b \in store'
            /\ IdsOf(store') = IdsOf(store)
            /\ Cardinality(store') = Cardinality(store)]_vars

\* An update that changed one row of a store holding another, different row.
C3_Witness ==
    \E c \in Slots :
        /\ pc[c] = "done" /\ req[c].op = "update" /\ resp[c].status = 200
        /\ affected[c] = 1
        /\ Book(req[c].id, req[c].title, req[c].author) \in store
        /\ \E b \in store : b.id # req[c].id /\ b.title # req[c].title

\* C4: a delete of an id in the store removes that row and no other; a listing
\* never shows an id the store no longer holds; only a create adds an id to
\* the store; and an id once assigned and removed is never in the store again.
C4_DeleteExact ==
    [][\A c \in Slots :
        /\ (Runs(c, "delete") /\ req[c].id \in IdsOf(store)) =>
            /\ req[c].id \notin IdsOf(store')
            /\ store' = {b \in store : b.id # req[c].id}
            /\ Cardinality(store') = Cardinality(store) - 1
        /\ Runs(c, "list") =>
            \A i \in 1..Len(resp'[c].body) : resp'[c].body[i].id \in IdsOf(store)
        /\ IdsOf(store') \ IdsOf(store) # {} => \E d \in Slots : Runs(d, "add")
        /\ \A i \in 1..seq : i \notin IdsOf(store) => i \notin IdsOf(store')]_vars

\* A delete that removed its row from a store that still holds another.
C4_Witness ==
    \E c \in Slots :
        /\ pc[c] = "done" /\ req[c].op = "delete" /\ resp[c].status = 200
        /\ affected[c] = 1
        /\ req[c].id \notin IdsOf(store)
        /\ store # {}

\* C5: a getById that matches no row is answered 404, and a getById on which
\* the store fails is answered 503.
C5_NotFoundIs404 ==
    \A c \in Slots :
        (pc[c] = "done" /\ req[c].op = "get") =>
            /\ res[c].err = "RowNotFound" => resp[c].status = 404
            /\ res[c].err \in {"Io", "PoolTimedOut"} => resp[c].status = 503

\* C6: an update or delete of an id the store does not hold, on which the
\* store answers, is answered 200 and leaves the table as it was.
C6_MissingIdNoOp ==
    [][\A c \in Slots :
        (Executes(c) /\ req[c].op \in {"update", "delete"} /\ res'[c].err # "Io"
            /\ req[c].id \notin IdsOf(store)) =>
            /\ resp'[c].status = 200
            /\ resp'[c].body = <<>>
            /\ store' = store
            /\ seq' = seq]_vars

\* An update that matched no row of a store that holds another row.
C6_Witness ==
    \E c \in Slots :
        /\ pc[c] = "done" /\ req[c].op = "update" /\ resp[c].status = 200
        /\ affected[c] = 0
        /\ req[c].id \notin IdsOf(store)
        /\ store # {}

\* A string without its leading and trailing spaces.
RECURSIVE TrimStart(_)
TrimStart(s) == IF s # <<>> /\ Head(s) = 32 THEN TrimStart(Tail(s)) ELSE s

RECURSIVE TrimEnd(_)
TrimEnd(s) ==
    IF s # <<>> /\ s[Len(s)] = 32 THEN TrimEnd(SubSeq(s, 1, Len(s) - 1)) ELSE s

Trim(s) == TrimEnd(TrimStart(s))

\* C7: a create or update whose title or author is empty after trimming is
\* turned away before the store sees it: it is answered 400 (503 at worst,
\* never 200), and it changes no row.
C7_BlankRejected ==
    \A c \in Slots :
        (/\ pc[c] = "done"
         /\ req[c].op \in {"add", "update"}
         /\ Trim(req[c].title) = <<>> \/ Trim(req[c].author) = <<>>)
            => /\ resp[c].status \in {400, 503}
               /\ affected[c] = 0

PoolInv ==
    /\ free >= 0
    /\ free + Cardinality({c \in Slots : held[c]}) = size
    /\ \A c \in Slots :
        /\ checkouts[c] <= 1
        /\ stmts[c] <= checkouts[c]
        /\ held[c] => pc[c] = "exec"
        /\ pc[c] = "done" => (~held[c] /\ stmts[c] = checkouts[c])
    /\ (\E c \in Slots : pc[c] = "acquire") =>
           ENABLED (\E c \in Slots : Acquire(c) \/ Execute(c))

\* C9: PoolInv holds throughout, and every request that has asked for a
\* connection is eventually done.
C9_PoolNoDeadlock ==
    /\ []PoolInv
    /\ \A c \in 1..NumClients : (pc[c] = "acquire") ~> (pc[c] = "done")

\* A request waiting on the exhausted pool.
C9_Witness ==
    \E c, d \in Slots :
        /\ pc[c] = "acquire" /\ free = 0
        /\ held[d] /\ pc[d] = "exec"

NoSharedId(s) == \A a, b \in s : a.id = b.id => a = b

\* C10: no two rows share an id; a create gives its row an id no row holds,
\* whatever id the request body carried; an update leaves the ids as they were.
C10_UniqueIds ==
    /\ []NoSharedId(store)
    /\ [][\A c \in Slots :
            /\ Runs(c, "add") =>
                /\ resp'[c].body[1] \notin IdsOf(store)
                /\ IdsOf(store') = IdsOf(store) \cup {resp'[c].body[1]}
            /\ Runs(c, "update") => IdsOf(store') = IdsOf(store)]_vars

\* A create whose body carried the id of a row of the store, answered with
\* another id, while another request is in flight.
C10_Witness ==
    \E c, d \in Slots :
        /\ pc[c] = "done" /\ req[c].op = "add" /\ resp[c].status = 200
        /\ req[c].id \in IdsOf(store)
        /\ resp[c].body[1] # req[c].id
        /\ resp[c].body[1] \in IdsOf(store)
        /\ c # d /\ pc[d] \in {"acquire", "exec"}

====
